---- MODULE Spec2Model ----
(***************************************************************************)
(* A model of youtube_transcript_server.py: the identifier extractor, the  *)
(* transcript cache with its on-disk mirror, and the fetch-format-store    *)
(* pipeline behind download_transcript and the transcript resource.        *)
(*                                                                         *)
(* A Python str is a sequence of symbols.  A symbol is a one-character     *)
(* string wherever the code looks at characters (URLs, identifiers, file   *)
(* names, the "Error" prefixes) and a whole literal or an opaque provider  *)
(* string (a title, a caption) where the code only copies it.              *)
(***************************************************************************)
EXTENDS Integers, Sequences, FiniteSets, TLC

VARIABLES
    probe,        \* a reference handed to extract_video_id alone, and what came back
    proc,         \* "up" while the server's lifespan context is live, else "down"
    transcripts,  \* TranscriptCache.transcripts: the records, in dict insertion order
    textFiles,    \* TRANSCRIPT_CACHE_DIR: the files the server writes as <id>.txt
    metaFiles,    \* TRANSCRIPT_CACHE_DIR: the files the server writes as <id>_meta.json
    tasks,        \* the requests suspended in `await get_video_info`
    adds,         \* history: per identifier, how its latest cache.add ended in this process
    last,         \* history: the latest completed operation
    nCalls,       \* requests started so far
    nBoots,       \* teardowns so far
    nFaults       \* failed disk writes and tampered metadata files so far

vars == <<probe, proc, transcripts, textFiles, metaFiles, tasks, adds, last, nCalls, nBoots,
          nFaults>>
pipeVars == <<proc, transcripts, textFiles, metaFiles, tasks, adds, last, nCalls, nBoots,
              nFaults>>

----------------------------------------------------------------------------
(* Characters and string primitives (Python str methods).                  *)

Lower == {"a","b","c","d","e","f","g","h","i","j","k","l","m",
          "n","o","p","q","r","s","t","u","v","w","x","y","z"}
Upper == {"A","B","C","D","E","F","G","H","I","J","K","L","M",
          "N","O","P","Q","R","S","T","U","V","W","X","Y","Z"}
Digit == {"0","1","2","3","4","5","6","7","8","9"}
Letter == Lower \cup Upper

\* s.startswith(p), s.endswith(p), p in s
StartsWith(s, p) == Len(s) >= Len(p) /\ SubSeq(s, 1, Len(p)) = p
EndsWith(s, p) == Len(s) >= Len(p) /\ SubSeq(s, Len(s) - Len(p) + 1, Len(s)) = p
Contains(s, p) == \E i \in 1..(Len(s) - Len(p) + 1) : SubSeq(s, i, i + Len(p) - 1) = p

\* s[i:] with a 1-based i
From(s, i) == SubSeq(s, i, Len(s))

\* the least index of a symbol of cs in s, 0 when there is none (str.find + 1)
FindAny(s, cs) ==
    IF \E i \in 1..Len(s) : s[i] \in cs
    THEN CHOOSE i \in 1..Len(s) : s[i] \in cs /\ \A j \in 1..(i - 1) : s[j] \notin cs
    ELSE 0

\* the greatest index of symbol c in s, 0 when there is none (str.rfind + 1)
RFind(s, c) ==
    IF \E i \in 1..Len(s) : s[i] = c
    THEN CHOOSE i \in 1..Len(s) : s[i] = c /\ \A j \in (i + 1)..Len(s) : s[j] # c
    ELSE 0

\* s.lstrip(cs), s.rstrip(cs), s.strip(cs)
RECURSIVE LStrip(_, _)
LStrip(s, cs) == IF s # <<>> /\ Head(s) \in cs THEN LStrip(Tail(s), cs) ELSE s
RECURSIVE RStrip(_, _)
RStrip(s, cs) ==
    IF s # <<>> /\ s[Len(s)] \in cs THEN RStrip(SubSeq(s, 1, Len(s) - 1), cs) ELSE s
Strip(s, cs) == RStrip(LStrip(s, cs), cs)

\* s.replace(p, "") for a non-empty p: every occurrence, left to right
RECURSIVE Remove(_, _)
Remove(s, p) ==
    IF s = <<>> THEN <<>>
    ELSE IF StartsWith(s, p) THEN Remove(From(s, Len(p) + 1), p)
    ELSE <<Head(s)>> \o Remove(Tail(s), p)

\* s.split(c): the pieces between the occurrences of symbol c
RECURSIVE Split(_, _)
Split(s, c) ==
    LET i == FindAny(s, {c})
    IN  IF i = 0 THEN <<s>> ELSE <<SubSeq(s, 1, i - 1)>> \o Split(From(s, i + 1), c)

----------------------------------------------------------------------------
(* urllib.parse.urlparse and parse_qs, as extract_video_id uses them, over *)
(* the model's alphabet (no "%", "+" or "[", so unquoting and the IPv6     *)
(* bracket check never apply).                                             *)

SchemeChars == Letter \cup Digit \cup {"+", "-", "."}

\* s[:i-1] when i is the 1-based place of a delimiter, s when i is 0
Before(s, i) == IF i = 0 THEN s ELSE SubSeq(s, 1, i - 1)
\* s[i+1:] when i is the 1-based place of a delimiter, "" when i is 0
After(s, i) == IF i = 0 THEN <<>> ELSE From(s, i + 1)

\* urlsplit's clean-up: leading C0-or-space stripped, tab/CR/LF removed
Clean(raw) ==
    SelectSeq(LStrip(raw, {" ", "\n", "\r", "\t"}), LAMBDA c : c \notin {"\n", "\r", "\t"})

\* the scheme and its ":" removed, colon being url.find(':') + 1
DropSchemeAt(url, colon) ==
    IF colon > 1 /\ url[1] \in Letter /\ \A i \in 1..(colon - 1) : url[i] \in SchemeChars
    THEN From(url, colon + 1)
    ELSE url
DropScheme(url) == DropSchemeAt(url, FindAny(url, {":"}))

\* _splitnetloc: after "//", the netloc runs to the first of "/", "?", "#"
Netloc(url) ==
    IF StartsWith(url, <<"/", "/">>)
    THEN Before(From(url, 3), FindAny(From(url, 3), {"/", "?", "#"}))
    ELSE <<>>
AfterNetloc(url) ==
    IF StartsWith(url, <<"/", "/">>)
    THEN From(url, 2 + Len(Netloc(url)) + 1)
    ELSE url

\* _splitparams: ";params" is cut off the last path segment
DropParamsAt(path, lastSlash, semi) ==
    IF semi = 0 THEN path ELSE SubSeq(path, 1, lastSlash + semi - 1)
DropParamsFrom(path, lastSlash) ==
    DropParamsAt(path, lastSlash, FindAny(From(path, lastSlash + 1), {";"}))
DropParams(path) == DropParamsFrom(path, RFind(path, "/"))

\* url is what follows the netloc, its fragment already cut off
SplitQuery(netloc, url, qm) ==
    [netloc |-> netloc, path |-> DropParams(Before(url, qm)), query |-> After(url, qm)]
SplitPath(netloc, url) == SplitQuery(netloc, url, FindAny(url, {"?"}))
SplitFragment(netloc, url) == SplitPath(netloc, Before(url, FindAny(url, {"#"})))
SplitNetloc(url) == SplitFragment(Netloc(url), AfterNetloc(url))

\* urlparse(raw): its netloc, path and query
UrlParse(raw) == SplitNetloc(DropScheme(Clean(raw)))

\* parse_qs(query).get(name, [''])[0]: fields are split at "&"; a field with
\* no "=" or with a blank value is dropped (keep_blank_values is False); the
\* first value kept under the name wins.
FieldValue(field, eq, name) ==
    IF eq # 0 /\ SubSeq(field, 1, eq - 1) = name THEN From(field, eq + 1) ELSE <<>>

RECURSIVE FirstValue(_, _)
FirstValue(fields, name) ==
    IF fields = <<>> THEN <<>>
    ELSE IF FieldValue(Head(fields), FindAny(Head(fields), {"="}), name) # <<>>
    THEN FieldValue(Head(fields), FindAny(Head(fields), {"="}), name)
    ELSE FirstValue(Tail(fields), name)

QueryGet(query, name) == FirstValue(Split(query, "&"), name)

----------------------------------------------------------------------------
(* extract_video_id                                                        *)

YOUTU_BE == <<"y","o","u","t","u",".","b","e">>
YOUTUBE_COM == <<"y","o","u","t","u","b","e",".","c","o","m">>
WWW_YOUTUBE_COM == <<"w","w","w",".">> \o YOUTUBE_COM
M_YOUTUBE_COM == <<"m",".">> \o YOUTUBE_COM
MainSiteHosts == {YOUTUBE_COM, WWW_YOUTUBE_COM, M_YOUTUBE_COM}

IdChar == Letter \cup Digit \cup {"_", "-"}
IdLen == 11

\* re.match(r'^[a-zA-Z0-9_-]{11}$', url): "$" also matches just before a
\* final newline.
MatchesIdPattern(url) ==
    /\ Len(url) >= IdLen
    /\ \A i \in 1..IdLen : url[i] \in IdChar
    /\ \/ Len(url) = IdLen
       \/ Len(url) = IdLen + 1 /\ url[IdLen + 1] = "\n"

ExtractErrorText == "Could not extract YouTube video ID from "

Extracted(id) == [ok |-> TRUE, id |-> id, msg |-> <<>>]
ValueError(msg) == [ok |-> FALSE, id |-> <<>>, msg |-> msg]

\* the extractor without its last branch: a bare identifier is no reference
ExtractStandardNoBare(url, parsed_url) ==
    IF parsed_url.netloc \in MainSiteHosts
    THEN Extracted(QueryGet(parsed_url.query, <<"v">>))
    ELSE ValueError(<<ExtractErrorText>> \o url)

\* extract_video_id past its first branch, parsed_url being urlparse(url)
ExtractStandard(url, parsed_url) ==
    IF parsed_url.netloc \in MainSiteHosts
    THEN Extracted(QueryGet(parsed_url.query, <<"v">>))
    ELSE IF MatchesIdPattern(url)
    THEN Extracted(url)
    ELSE ValueError(<<ExtractErrorText>> \o url)

\* The value returned, or the ValueError raised with its message.
ExtractVideoId(url) ==
    IF Contains(url, YOUTU_BE)
    THEN Extracted(Strip(UrlParse(url).path, {"/"}))
    ELSE ExtractStandard(url, UrlParse(url))

----------------------------------------------------------------------------
(* References the extractor is probed with.                                *)

ID1 == <<"d","Q","w","4","w","9","W","g","X","c","Q">>
ID2 == <<"a","b","c","d","e","f","_","m","e","t","a">>
ShortId == <<"d","Q","w","4","w","9","W","g","X","c">>
LongId == ID1 \o <<"Z">>

HTTPS == <<"h","t","t","p","s",":","/","/">>
HTTP == <<"h","t","t","p",":","/","/">>
WATCH == <<"/","w","a","t","c","h">>
EXAMPLE_COM == <<"e","x","a","m","p","l","e",".","c","o","m">>
NOT_A_URL == <<"n","o","t"," ","a"," ","u","r","l">>
T30 == <<"t","=","3","0">>
FEATURE == <<"f","e","a","t","u","r","e","=">> \o YOUTU_BE
V_EQ == <<"v","=">>

Schemes == {HTTPS, HTTP}

\* The accepted forms carrying identifier x.
ShortForms(x) ==
    { s \o YOUTU_BE \o <<"/">> \o x \o q :
        s \in Schemes, q \in {<<>>, <<"/">>, <<"?">> \o T30, <<"#">> \o T30} }

StandardQueries(x) ==
    { V_EQ \o x,
      V_EQ \o x \o <<"&">> \o T30,
      T30 \o <<"&">> \o V_EQ \o x,
      V_EQ \o x \o <<"#">> \o T30,
      V_EQ \o x \o <<"&">> \o FEATURE }

StandardForms(x) ==
    { s \o h \o WATCH \o <<"?">> \o q :
        s \in Schemes, h \in MainSiteHosts, q \in StandardQueries(x) }

CarrierForms(x) == ShortForms(x) \cup StandardForms(x) \cup {x}

\* References with no identifier in them, or in no recognized shape.
OtherQueries == { <<>>, <<"?">> \o T30, <<"?">> \o V_EQ, <<"?", "v">>,
                  <<"?">> \o V_EQ \o <<"&">> \o T30, <<"?", "v", "v", "=">> \o ID1 }

OtherForms ==
    { s \o h \o p \o q :
        s \in Schemes \cup {<<>>},
        h \in MainSiteHosts \cup {YOUTU_BE, EXAMPLE_COM},
        p \in {<<>>, <<"/">>, WATCH},
        q \in OtherQueries }
    \cup { <<>>, NOT_A_URL, ShortId, LongId, ID1 \o <<"\n">>, <<" ">> \o ID1,
           <<"\n">> \o ID1, ID1 \o <<"\n", "\n">>,
           HTTPS \o EXAMPLE_COM \o WATCH \o <<"?">> \o V_EQ \o ID1,
           WWW_YOUTUBE_COM \o WATCH \o <<"?">> \o V_EQ \o ID1,
           YOUTU_BE \o <<"/">> \o ID1 }

ProbeInputs == CarrierForms(ID1) \cup CarrierForms(ID2) \cup OtherForms

----------------------------------------------------------------------------
(* Data models: VideoInfo, TranscriptInfo.                                 *)

\* Optional[VideoInfo]: None
None == [present |-> FALSE, video_id |-> <<>>, title |-> <<>>, channel |-> <<>>]

VideoInfo(video_id, title, channel) ==
    [present |-> TRUE, video_id |-> video_id, title |-> title, channel |-> channel]

TranscriptInfo(video_id, video_info, text) ==
    [video_id |-> video_id, video_info |-> video_info, text |-> text]

\* Python truthiness of a str
Truthy(s) == s # <<>>

----------------------------------------------------------------------------
(* The cache directory.  A file is [name, data]; a directory holds at most *)
(* one file per name.  A text file's data is a str.  A metadata file's     *)
(* data is a JSON document: an object with some of the keys "title" and    *)
(* "channel", another JSON value ("array"), or not JSON at all ("invalid": *)
(* truncated or garbled).                                                  *)

DOT_TXT == <<".","t","x","t">>
META_TXT == <<"_","m","e","t","a">> \o DOT_TXT
META_JSON == <<"_","m","e","t","a",".","j","s","o","n">>

JsonObject(keys, title, channel) ==
    [kind |-> "object", keys |-> keys,
     title |-> IF "title" \in keys THEN title ELSE <<>>,
     channel |-> IF "channel" \in keys THEN channel ELSE <<>>]
JsonArray == [kind |-> "array", keys |-> {}, title |-> <<>>, channel |-> <<>>]
JsonInvalid == [kind |-> "invalid", keys |-> {}, title |-> <<>>, channel |-> <<>>]

Exists(dir, name) == \E f \in dir : f.name = name
Data(dir, name) == (CHOOSE f \in dir : f.name = name).data
\* open(name, "w") and a complete write
Put(dir, name, data) == {f \in dir : f.name # name} \cup {[name |-> name, data |-> data]}

\* f.read() of a file opened in text mode: universal newlines turn "\r\n"
\* and a lone "\r" into "\n".  (Writing on POSIX leaves "\n" as it is.)
RECURSIVE ReadText(_)
ReadText(data) ==
    IF data = <<>> THEN <<>>
    ELSE IF Head(data) = "\r"
    THEN <<"\n">> \o ReadText(IF Len(data) > 1 /\ data[2] = "\n"
                               THEN From(data, 3) ELSE Tail(data))
    ELSE <<Head(data)>> \o ReadText(Tail(data))

\* How a _save_to_disk may end: done, or an OSError raised by the open or
\* by the write of the text file or of the metadata file.
DiskOutcomes == {"ok", "txt_open", "txt_write", "meta_open", "meta_write"}
DiskFailures == DiskOutcomes \ {"ok"}
OSErrorText == "OSError"

\* What _save_to_disk leaves behind, and whether an OSError came out of it.
Saved(texts, metas, raised) == [texts |-> texts, metas |-> metas, raised |-> raised]

\* _save_to_disk once the text file is written: the metadata file.
SaveMeta(texts, metas, info, outcome) ==
    IF ~info.video_info.present THEN Saved(texts, metas, FALSE)
    ELSE IF outcome = "meta_open" THEN Saved(texts, metas, TRUE)
    ELSE IF outcome = "meta_write"
    THEN Saved(texts, Put(metas, info.video_id \o META_JSON, JsonInvalid), TRUE)
    ELSE Saved(texts,
               Put(metas, info.video_id \o META_JSON,
                   JsonObject({"title", "channel"}, info.video_info.title,
                              info.video_info.channel)),
               FALSE)

\* _save_to_disk that leaves an identifier's files alone once they exist
SaveToDiskOnce(texts, metas, info, outcome) ==
    IF ~Truthy(info.text) \/ Exists(texts, info.video_id \o DOT_TXT)
    THEN Saved(texts, metas, FALSE)
    ELSE IF outcome = "txt_open" THEN Saved(texts, metas, TRUE)
    ELSE IF outcome = "txt_write"
    THEN Saved(Put(texts, info.video_id \o DOT_TXT, <<>>), metas, TRUE)
    ELSE SaveMeta(Put(texts, info.video_id \o DOT_TXT, info.text), metas, info, outcome)

\* TranscriptCache._save_to_disk.  A write that fails leaves the file as
\* open(..., "w") made it: truncated, with nothing of the new content (for
\* the metadata file: not a JSON document).
SaveToDisk(texts, metas, info, outcome) ==
    IF ~Truthy(info.text) THEN Saved(texts, metas, FALSE)
    ELSE IF outcome = "txt_open" THEN Saved(texts, metas, TRUE)
    ELSE IF outcome = "txt_write"
    THEN Saved(Put(texts, info.video_id \o DOT_TXT, <<>>), metas, TRUE)
    ELSE SaveMeta(Put(texts, info.video_id \o DOT_TXT, info.text), metas, info, outcome)

----------------------------------------------------------------------------
(* TranscriptCache: a dict, kept as the sequence of its values in          *)
(* insertion order (an overwritten key keeps its place).                   *)

\* TranscriptCache.get; NoInfo stands for None
NoInfo == [video_id |-> <<>>, video_info |-> None, text |-> <<>>, found |-> FALSE]
Found(info) == [video_id |-> info.video_id, video_info |-> info.video_info,
                text |-> info.text, found |-> TRUE]

\* get() that finds nothing
CacheGetNone(cache, video_id) == NoInfo

CacheGet(cache, video_id) ==
    IF \E i \in 1..Len(cache) : cache[i].video_id = video_id
    THEN Found(cache[CHOOSE i \in 1..Len(cache) : cache[i].video_id = video_id])
    ELSE NoInfo

\* the records kept in a list that every insert appends to
CacheSetAppend(cache, info) == Append(cache, info)

\* add() as setdefault: a key already present keeps its first record
CacheSetKeepFirst(cache, info) ==
    IF \E i \in 1..Len(cache) : cache[i].video_id = info.video_id
    THEN cache
    ELSE Append(cache, info)

\* add() with the dict assignment left out: the record only goes to disk
CacheSetSkipped(cache, info) == cache

\* self.transcripts[info.video_id] = info
CacheSet(cache, info) ==
    IF \E i \in 1..Len(cache) : cache[i].video_id = info.video_id
    THEN [i \in 1..Len(cache) |->
            IF cache[i].video_id = info.video_id THEN info ELSE cache[i]]
    ELSE Append(cache, info)

\* add() that writes the disk first and sets the dict entry afterwards: an
\* OSError from the disk leaves the dict without the record
CacheAddDiskFirst(cache, texts, metas, info, outcome) ==
    [cache |-> IF SaveToDisk(texts, metas, info, outcome).raised
               THEN cache ELSE CacheSet(cache, info),
     texts |-> SaveToDisk(texts, metas, info, outcome).texts,
     metas |-> SaveToDisk(texts, metas, info, outcome).metas,
     raised |-> SaveToDisk(texts, metas, info, outcome).raised]

\* TranscriptCache.add: the dict entry first, then the disk; an OSError from
\* the disk leaves the entry in place and propagates.
Added(cache, saved) ==
    [cache |-> cache, texts |-> saved.texts, metas |-> saved.metas, raised |-> saved.raised]
CacheAdd(cache, texts, metas, info, outcome) ==
    Added(CacheSet(cache, info), SaveToDisk(texts, metas, info, outcome))

\* TranscriptCache.list_all
ListAll(cache) == cache

UNKNOWN_TITLE == <<"Unknown Title">>
UNKNOWN_CHANNEL == <<"Unknown Channel">>

Loaded(cache, raised) == [cache |-> cache, raised |-> raised]

\* meta.get(key, default) on a parsed JSON object
MetaGet(meta, key, default) == IF key \in meta.keys THEN meta[key] ELSE default

\* load_from_disk's "try to load metadata" for one text file: the record is
\* made with the VideoInfo of a metadata file that parses to an object, and
\* with None when there is no such file or it is not JSON; a JSON value that
\* is no object has no .get, and that AttributeError is not caught.
LoadRecord(cache, metas, video_id, text, meta_path) ==
    IF ~Exists(metas, meta_path)
    THEN Loaded(CacheSet(cache, TranscriptInfo(video_id, None, text)), FALSE)
    ELSE IF Data(metas, meta_path).kind = "invalid"
    THEN Loaded(CacheSet(cache, TranscriptInfo(video_id, None, text)), FALSE)
    ELSE IF Data(metas, meta_path).kind = "array"
    THEN Loaded(cache, TRUE)
    ELSE Loaded(CacheSet(cache,
                    TranscriptInfo(video_id,
                        VideoInfo(video_id,
                            MetaGet(Data(metas, meta_path), "title", UNKNOWN_TITLE),
                            MetaGet(Data(metas, meta_path), "channel", UNKNOWN_CHANNEL)),
                        text)),
                FALSE)

\* One iteration of load_from_disk's loop, for directory entry filename.
LoadFile(cache, texts, metas, filename, video_id) ==
    LoadRecord(cache, metas, video_id, ReadText(Data(texts, filename)),
               video_id \o META_JSON)

LoadOne(cache, texts, metas, filename) ==
    IF EndsWith(filename, DOT_TXT) /\ ~EndsWith(filename, META_TXT)
    THEN LoadFile(cache, texts, metas, filename, Remove(filename, DOT_TXT))
    ELSE Loaded(cache, FALSE)

\* TranscriptCache.load_from_disk over os.listdir's entries in the order
\* given (the order is the file system's choice).  raised: an exception left
\* the loop.
RECURSIVE LoadFromDisk(_, _, _, _)
LoadFromDisk(cache, texts, metas, listing) ==
    IF listing = <<>> THEN Loaded(cache, FALSE)
    ELSE IF LoadOne(cache, texts, metas, Head(listing)).raised THEN Loaded(cache, TRUE)
    ELSE LoadFromDisk(LoadOne(cache, texts, metas, Head(listing)).cache,
                      texts, metas, Tail(listing))

----------------------------------------------------------------------------
(* The providers' answers.                                                 *)

\* YouTubeTranscriptApi.get_transcript: caption entries (start in
\* hundredths of a second), or an exception.
Entry(start, text) == [start |-> start, text |-> text]
SegsA == <<Entry(0, <<"Hello">>), Entry(6500, <<"World">>)>>
SegsB == <<Entry(7590, <<"Line", "\r", "break">>)>>
SegmentLists == {SegsA, SegsB}
NoSegs == <<>>
\* The videos that exist; for any other identifier the provider raises.
Videos == {ID1, ID2}
Captions(video_id) == IF video_id \in Videos THEN SegmentLists ELSE {}
TranscriptErrorText == "TranscriptsDisabled"

\* The oEmbed exchange: a 200 with a JSON object carrying both fields, a 200
\* with a JSON object carrying neither, another status, a transport error
\* raised by client.get, a 200 whose body is not JSON.
MetaOutcomes == {"ok", "no_fields", "status", "transport", "bad_json"}
MetaFailures == {"status", "transport", "bad_json"}
TITLE == <<"Never Gonna Give You Up">>
CHANNEL == <<"Rick Astley">>
UNKNOWN == <<"Unknown">>

\* get_video_info: the VideoInfo returned, or the exception that escapes it.
GetVideoInfo(video_id, response) ==
    CASE response = "ok" ->
            [raised |-> FALSE, err |-> "", info |-> VideoInfo(video_id, TITLE, CHANNEL)]
      [] response = "no_fields" ->
            [raised |-> FALSE, err |-> "",
             info |-> VideoInfo(video_id, UNKNOWN_TITLE, UNKNOWN_CHANNEL)]
      [] response = "status" ->
            [raised |-> FALSE, err |-> "", info |-> VideoInfo(video_id, UNKNOWN, UNKNOWN)]
      [] response = "transport" -> [raised |-> TRUE, err |-> "ConnectError", info |-> None]
      [] response = "bad_json" -> [raised |-> TRUE, err |-> "JSONDecodeError", info |-> None]

----------------------------------------------------------------------------
(* Formatting (get_transcript, the loop and the header).                   *)

DigitSymbols == <<"0","1","2","3","4","5","6","7","8","9">>

RECURSIVE Decimal(_)
Decimal(n) == IF n < 10 THEN <<DigitSymbols[n + 1]>>
              ELSE Decimal(n \div 10) \o <<DigitSymbols[(n % 10) + 1]>>

\* f"{n:02d}": zero-padded to width 2, the sign counted in the width
Pad2(n) ==
    IF n < 0 THEN <<"-">> \o Decimal(-n)
    ELSE IF n < 10 THEN <<"0">> \o Decimal(n)
    ELSE Decimal(n)

\* the seconds rounded to the nearest whole second instead of cut off
SecondsRounded(start) == ((start % 6000) + 50) \div 100

\* int(start // 60) and int(start % 60), start in hundredths of a second
Minutes(start) == start \div 6000
Seconds(start) == (start % 6000) \div 100

Timestamp(start) == <<"[">> \o Pad2(Minutes(start)) \o <<":">> \o Pad2(Seconds(start)) \o <<"]">>

RECURSIVE FormatEntries(_)
FormatEntries(transcript_list) ==
    IF transcript_list = <<>> THEN <<>>
    ELSE Timestamp(Head(transcript_list).start) \o <<" ">> \o Head(transcript_list).text
         \o <<"\n">> \o FormatEntries(Tail(transcript_list))

Header(video_info, video_id) ==
    <<"Title: ">> \o video_info.title \o <<"\n">>
    \o <<"Channel: ">> \o video_info.channel \o <<"\n">>
    \o <<"Video ID: ">> \o video_id \o <<"\n", "\n">>
    \o <<"TRANSCRIPT:", "\n">>

FullTranscript(video_info, video_id, formatted_transcript) ==
    Header(video_info, video_id) \o formatted_transcript

\* f"Error retrieving transcript: {e}" and f"Error: {e}"
ERROR_RETRIEVING == <<"E","r","r","o","r"," ","r","e","t","r","i","e","v","i","n","g"," ",
                      "t","r","a","n","s","c","r","i","p","t",":"," ">>
ERROR_COLON == <<"E","r","r","o","r",":"," ">>

\* the handler returning str(e) alone
RetrievalErrorBare(e) == <<e>>
RetrievalError(e) == ERROR_RETRIEVING \o <<e>>
InvalidUrlError(msg) == ERROR_COLON \o msg

----------------------------------------------------------------------------
(* The server: requests, the lifespan, the cache directory's environment.  *)

MaxCalls == 2
MaxBoots == 1
MaxFaults == 1

\* What download_transcript is called with, and what the transcript
\* resource is read with.
ToolInputs ==
    { HTTPS \o YOUTU_BE \o <<"/">> \o ID1,
      ID2,
      HTTPS \o WWW_YOUTUBE_COM \o WATCH \o <<"?">> \o T30,
      NOT_A_URL }
ResourceInputs == {ID2}

\* The terminal states of a request (spec section 4.6), and a cancelled one.
Returned == {"RETURNED_CACHED", "RETURNED_FRESH", "RETURNED_ERROR"}

NoOp ==
    [op |-> "none", url |-> <<>>, has_id |-> FALSE, video_id |-> <<>>,
     outcome |-> "NONE", result |-> <<>>,
     looked |-> FALSE, fetched |-> FALSE, fetch_ok |-> FALSE, segs |-> NoSegs,
     meta_asked |-> FALSE, meta |-> "none", disk |-> "none",
     added |-> FALSE, info |-> TranscriptInfo(<<>>, None, <<>>),
     after_failed |-> FALSE, before |-> {}, aborted |-> FALSE]

NoAdds == [ok |-> {}, failed |-> {}]

NoResult == [ok |-> FALSE, id |-> <<>>, msg |-> <<>>]

InitPipe ==
    /\ proc = "up"
    /\ transcripts = <<>>
    /\ textFiles = {}
    /\ metaFiles = {}
    /\ tasks = {}
    /\ adds = NoAdds
    /\ last = NoOp
    /\ nCalls = 0
    /\ nBoots = 0
    /\ nFaults = 0

Init ==
    /\ probe = [url |-> <<>>, done |-> TRUE, result |-> NoResult]
    /\ InitPipe

\* What the history records of a request for video_id as it starts.
Call(op, url, video_id) ==
    [NoOp EXCEPT !.op = op, !.url = url, !.has_id = TRUE, !.video_id = video_id,
                 !.looked = TRUE, !.after_failed = video_id \in adds.failed]

\* A request suspended in `await get_video_info`, with its locals.
Suspended(call, transcript_list) ==
    [call |-> nCalls + 1, op |-> call.op, url |-> call.url, video_id |-> call.video_id,
     segs |-> transcript_list, formatted_transcript |-> FormatEntries(transcript_list),
     after_failed |-> call.after_failed]

\* get_transcript with the transcript fetch outside its try block: the
\* provider's exception leaves get_transcript
GetTranscriptFromUnguarded(call, cached_info) ==
    IF cached_info.found /\ Truthy(cached_info.text)
    THEN /\ last' = [call EXCEPT !.outcome = "RETURNED_CACHED",
                                 !.result = cached_info.text]
         /\ UNCHANGED tasks
    ELSE \/ /\ last' = [call EXCEPT !.outcome = "RAISED", !.fetched = TRUE]
            /\ UNCHANGED tasks
         \/ \E transcript_list \in Captions(call.video_id) :
               /\ tasks' = tasks \cup {Suspended(call, transcript_list)}
               /\ UNCHANGED last

\* get_transcript up to its only suspension point: the cache check, the
\* transcript fetch and the formatting loop.  cached_info is cache.get's
\* answer.  A request that gets as far as `await get_video_info` joins tasks.
GetTranscriptFrom(call, cached_info) ==
    IF cached_info.found /\ Truthy(cached_info.text)
    THEN /\ last' = [call EXCEPT !.outcome = "RETURNED_CACHED",
                                 !.result = cached_info.text]
         /\ UNCHANGED tasks
    ELSE \/ \* YouTubeTranscriptApi.get_transcript raises
            /\ last' = [call EXCEPT !.outcome = "RETURNED_ERROR", !.fetched = TRUE,
                                    !.result = RetrievalError(TranscriptErrorText)]
            /\ UNCHANGED tasks
         \/ \* it returns transcript_list
            \E transcript_list \in Captions(call.video_id) :
               /\ tasks' = tasks \cup {Suspended(call, transcript_list)}
               /\ UNCHANGED last

GetTranscriptBegin(op, url, video_id) ==
    GetTranscriptFrom(Call(op, url, video_id), CacheGet(transcripts, video_id))

\* download_transcript once extract_video_id has returned or raised
DownloadExtracted(youtube_url, extracted) ==
    /\ proc = "up"
    /\ nCalls < MaxCalls
    /\ nCalls' = nCalls + 1
    /\ IF extracted.ok
       THEN GetTranscriptBegin("tool", youtube_url, extracted.id)
       ELSE /\ last' = [NoOp EXCEPT !.op = "tool", !.url = youtube_url,
                                    !.outcome = "RETURNED_ERROR",
                                    !.result = InvalidUrlError(extracted.msg)]
            /\ UNCHANGED tasks
    /\ UNCHANGED <<probe, proc, transcripts, textFiles, metaFiles, adds, nBoots, nFaults>>

\* download_transcript(youtube_url)
DownloadTranscript(youtube_url) ==
    \E extracted \in {ExtractVideoId(youtube_url)} :
        DownloadExtracted(youtube_url, extracted)

\* get_transcript_resource(video_id)
GetTranscriptResource(video_id) ==
    /\ proc = "up"
    /\ nCalls < MaxCalls
    /\ nCalls' = nCalls + 1
    /\ GetTranscriptBegin("resource", video_id, video_id)
    /\ UNCHANGED <<probe, proc, transcripts, textFiles, metaFiles, adds, nBoots, nFaults>>

\* What the history records of a resumed request.
Resumed(task, response) ==
    [NoOp EXCEPT !.op = task.op, !.url = task.url, !.has_id = TRUE,
                 !.video_id = task.video_id, !.looked = TRUE, !.fetched = TRUE,
                 !.fetch_ok = TRUE, !.segs = task.segs, !.meta_asked = TRUE,
                 !.meta = response, !.after_failed = task.after_failed]

\* the record built before the metadata is there: text, no VideoInfo
NewInfoWithoutVideoInfo(task, video_info) ==
    TranscriptInfo(task.video_id, None,
                   FullTranscript(video_info, task.video_id, task.formatted_transcript))

\* info = TranscriptInfo(video_id, video_info, header + formatted_transcript)
NewInfo(task, video_info) ==
    TranscriptInfo(task.video_id, video_info,
                   FullTranscript(video_info, task.video_id, task.formatted_transcript))

\* per identifier, how its latest cache.add ended
NoteAdd(video_id, raised) ==
    IF raised
    THEN [ok |-> adds.ok \ {video_id}, failed |-> adds.failed \cup {video_id}]
    ELSE [ok |-> adds.ok \cup {video_id}, failed |-> adds.failed \ {video_id}]

\* get_transcript from cache.add(info) to its return: the OSError of a
\* failed disk write is caught by `except Exception` and returned as text.
AddAndReturn(call, info, added) ==
    /\ transcripts' = added.cache
    /\ textFiles' = added.texts
    /\ metaFiles' = added.metas
    /\ adds' = NoteAdd(info.video_id, added.raised)
    /\ nFaults' = IF call.disk = "ok" THEN nFaults ELSE nFaults + 1
    /\ last' = IF added.raised
               THEN [call EXCEPT !.outcome = "RETURNED_ERROR",
                                 !.result = RetrievalError(OSErrorText)]
               ELSE [call EXCEPT !.outcome = "RETURNED_FRESH", !.result = info.text]

\* get_transcript with `await get_video_info` outside its try block: the
\* exception of the metadata exchange leaves get_transcript
AfterVideoInfoUnguarded(call, info, got) ==
    IF got.raised
    THEN /\ last' = [call EXCEPT !.outcome = "RAISED"]
         /\ UNCHANGED <<transcripts, textFiles, metaFiles, adds, nFaults>>
    ELSE \E outcome \in IF nFaults < MaxFaults THEN DiskOutcomes ELSE {"ok"} :
         \E added \in {CacheAdd(transcripts, textFiles, metaFiles, info, outcome)} :
            AddAndReturn([call EXCEPT !.disk = outcome, !.added = TRUE, !.info = info],
                         info, added)

\* get_transcript once get_video_info has returned or raised (got)
AfterVideoInfo(call, info, got) ==
    IF got.raised
    THEN /\ last' = [call EXCEPT !.outcome = "RETURNED_ERROR",
                                 !.result = RetrievalError(got.err)]
         /\ UNCHANGED <<transcripts, textFiles, metaFiles, adds, nFaults>>
    ELSE \E outcome \in IF nFaults < MaxFaults THEN DiskOutcomes ELSE {"ok"} :
         \E added \in {CacheAdd(transcripts, textFiles, metaFiles, info, outcome)} :
            AddAndReturn([call EXCEPT !.disk = outcome, !.added = TRUE, !.info = info],
                         info, added)

GetTranscriptEnd(task, response, got) ==
    \E info \in {NewInfo(task, got.info)} :
        AfterVideoInfo(Resumed(task, response), info, got)

\* get_transcript from the resumption of `await get_video_info` to its
\* return: response is the oEmbed exchange.
GetTranscriptResume(task, response) ==
    /\ proc = "up"
    /\ task \in tasks
    /\ tasks' = tasks \ {task}
    /\ \E got \in {GetVideoInfo(task.video_id, response)} :
          GetTranscriptEnd(task, response, got)
    /\ UNCHANGED <<probe, proc, nCalls, nBoots>>

\* The caller cancels a request suspended in get_video_info: CancelledError
\* is no Exception, so get_transcript's handler lets it through.
Cancel(task) ==
    /\ proc = "up"
    /\ task \in tasks
    /\ tasks' = tasks \ {task}
    /\ last' = [NoOp EXCEPT !.op = task.op, !.url = task.url, !.has_id = TRUE,
                            !.video_id = task.video_id, !.looked = TRUE,
                            !.fetched = TRUE, !.fetch_ok = TRUE, !.segs = task.segs,
                            !.meta_asked = TRUE, !.outcome = "CANCELLED"]
    /\ UNCHANGED <<probe, proc, transcripts, textFiles, metaFiles, adds, nCalls, nBoots, nFaults>>

\* list_available_transcripts: the fixed message for an empty cache, or the
\* heading and three lines per record, numbered from 1 in list_all's order.
NO_TRANSCRIPTS == <<"No transcripts have been downloaded yet.">>
AVAILABLE == <<"Available Transcripts:", "\n", "\n">>

ListEntry(i, title, channel, video_id) ==
    Decimal(i) \o <<". ">> \o title \o <<"\n">>
    \o <<"   Channel: ">> \o channel \o <<"\n">>
    \o <<"   ID: ">> \o video_id \o <<"\n">>

ListTitle(info) == IF info.video_info.present THEN info.video_info.title ELSE UNKNOWN_TITLE
ListChannel(info) ==
    IF info.video_info.present THEN info.video_info.channel ELSE UNKNOWN_CHANNEL

RECURSIVE ListEntries(_, _)
ListEntries(infos, i) ==
    IF infos = <<>> THEN <<>>
    ELSE ListEntry(i, ListTitle(Head(infos)), ListChannel(Head(infos)), Head(infos).video_id)
         \o ListEntries(Tail(infos), i + 1)

\* enumerate(transcripts) without its start argument: numbered from 0
ListingFromZero(infos) ==
    IF infos = <<>> THEN NO_TRANSCRIPTS ELSE AVAILABLE \o ListEntries(infos, 0)

Listing(infos) ==
    IF infos = <<>> THEN NO_TRANSCRIPTS ELSE AVAILABLE \o ListEntries(infos, 1)

\* list_available_transcripts(), called as a tool or by
\* list_transcripts_resource, which returns what it returns
ListAvailableTranscripts ==
    /\ proc = "up"
    /\ last' = [NoOp EXCEPT !.op = "list", !.outcome = "LISTED",
                            !.result = Listing(ListAll(transcripts))]
    /\ UNCHANGED <<probe, proc, transcripts, textFiles, metaFiles, tasks, adds, nCalls,
                   nBoots, nFaults>>

\* The records this process added and fully persisted, as the cache holds
\* them now.
Persisted == {transcripts[i] : i \in {j \in 1..Len(transcripts) :
                                        transcripts[j].video_id \in adds.ok}}

\* The server stops: the lifespan context ends, the cache object and the
\* suspended requests go with it.
Teardown ==
    /\ proc = "up"
    /\ nBoots < MaxBoots
    /\ nBoots' = nBoots + 1
    /\ proc' = "down"
    /\ transcripts' = <<>>
    /\ tasks' = {}
    /\ adds' = NoAdds
    /\ last' = [NoOp EXCEPT !.op = "teardown", !.before = Persisted]
    /\ UNCHANGED <<probe, textFiles, metaFiles, nCalls, nFaults>>

\* Someone else deletes or rewrites a metadata file while the server is down.
TamperedJson == {JsonInvalid, JsonArray, JsonObject({}, <<>>, <<>>)}

DeleteMeta(f) ==
    /\ proc = "down"
    /\ nFaults < MaxFaults
    /\ nFaults' = nFaults + 1
    /\ f \in metaFiles
    /\ metaFiles' = metaFiles \ {f}
    /\ last' = [NoOp EXCEPT !.op = "tamper", !.before = last.before]
    /\ UNCHANGED <<probe, proc, transcripts, textFiles, tasks, adds, nCalls, nBoots>>

CorruptMeta(f, data) ==
    /\ proc = "down"
    /\ nFaults < MaxFaults
    /\ nFaults' = nFaults + 1
    /\ f \in metaFiles
    /\ f.data # data
    /\ metaFiles' = Put(metaFiles, f.name, data)
    /\ last' = [NoOp EXCEPT !.op = "tamper", !.before = last.before]
    /\ UNCHANGED <<probe, proc, transcripts, textFiles, tasks, adds, nCalls, nBoots>>

\* Every ordering of a finite set of names.
RECURSIVE Orderings(_)
Orderings(names) ==
    IF names = {} THEN {<<>>}
    ELSE UNION {{<<n>> \o l : l \in Orderings(names \ {n})} : n \in names}

\* os.listdir(TRANSCRIPT_CACHE_DIR): every file name once, in an order of
\* the file system's choosing.  Only the order among the text files is
\* varied: the loop passes over a ".json" name wherever it stands.
Listings ==
    LET jsonNames == CHOOSE l \in Orderings({f.name : f \in metaFiles}) : TRUE
    IN  {l \o jsonNames : l \in Orderings({f.name : f \in textFiles})}

\* app_lifespan up to its yield: a new TranscriptCache, load_from_disk.  An
\* exception out of load_from_disk ends the start-up.
Started(loaded) ==
    /\ proc' = IF loaded.raised THEN "down" ELSE "up"
    /\ transcripts' = IF loaded.raised THEN <<>> ELSE loaded.cache
    /\ last' = [NoOp EXCEPT !.op = "startup", !.before = last.before,
                            !.aborted = loaded.raised]

Startup(listing) ==
    /\ proc = "down"
    /\ Started(LoadFromDisk(<<>>, textFiles, metaFiles, listing))
    /\ UNCHANGED <<probe, textFiles, metaFiles, tasks, adds, nCalls, nBoots, nFaults>>

Next ==
    \/ \E u \in ToolInputs : DownloadTranscript(u)
    \/ \E v \in ResourceInputs : GetTranscriptResource(v)
    \/ \E task \in tasks, r \in MetaOutcomes : GetTranscriptResume(task, r)
    \/ \E task \in tasks : Cancel(task)
    \/ Teardown
    \/ \E f \in metaFiles : DeleteMeta(f)
    \/ \E f \in metaFiles, d \in TamperedJson : CorruptMeta(f, d)
    \/ \E l \in Listings : Startup(l)

Spec == Init /\ [][Next]_vars

----------------------------------------------------------------------------
(* The server with its listing tool and listing resource: requests, stops  *)
(* and starts, and listings in between.                                    *)

ListNext ==
    \/ \E u \in ToolInputs : DownloadTranscript(u)
    \/ \E v \in ResourceInputs : GetTranscriptResource(v)
    \/ \E task \in tasks, r \in MetaOutcomes : GetTranscriptResume(task, r)
    \/ Teardown
    \/ \E l \in Listings : Startup(l)
    \/ ListAvailableTranscripts

SpecList == Init /\ [][ListNext]_vars

----------------------------------------------------------------------------
(* The requests of a server that stays up and whose callers wait: the      *)
(* event loop resumes a request suspended in get_video_info once httpx has *)
(* an answer or an error for it.                                           *)

LiveNext ==
    \/ \E u \in ToolInputs : DownloadTranscript(u)
    \/ \E v \in ResourceInputs : GetTranscriptResource(v)
    \/ \E task \in tasks, r \in MetaOutcomes : GetTranscriptResume(task, r)

\* the oEmbed exchange of a suspended request returns or fails, and the
\* event loop resumes the request
ProviderReturns ==
    \E task \in tasks, r \in MetaOutcomes : GetTranscriptResume(task, r)

SpecLive == Init /\ [][LiveNext]_vars /\ WF_vars(ProviderReturns)

----------------------------------------------------------------------------
(* The extractor on its own.                                               *)

InitProbe ==
    /\ probe \in {[url |-> u, done |-> FALSE, result |-> NoResult] : u \in ProbeInputs}
    /\ InitPipe

\* extract_video_id(probe.url), on its own
Probe ==
    /\ ~probe.done
    /\ probe' = [probe EXCEPT !.done = TRUE, !.result = ExtractVideoId(probe.url)]
    /\ UNCHANGED pipeVars

SpecExtract == InitProbe /\ [][Probe]_vars

----------------------------------------------------------------------------
(* load_from_disk on its own, over directories as it may find them: text   *)
(* files of a loadable identifier, of an identifier ending in "_meta" and  *)
(* of a foreign name, with or without a metadata file of any content.      *)

NOTES == <<"n", "o", "t", "e", "s">>
TextDatas == {<<>>, FormatEntries(SegsB)}
MetaDatas == {JsonObject({"title", "channel"}, TITLE, CHANNEL), JsonObject({}, <<>>, <<>>),
              JsonInvalid, JsonArray}

\* no file of that name, or one with any of the contents
FileChoices(name, datas) == {{}} \cup {{[name |-> name, data |-> d]} : d \in datas}

InitLoad ==
    /\ probe = [url |-> <<>>, done |-> TRUE, result |-> NoResult]
    /\ proc = "down"
    /\ transcripts = <<>>
    /\ textFiles \in {a \cup b \cup c : a \in FileChoices(ID1 \o DOT_TXT, TextDatas),
                                         b \in FileChoices(ID2 \o DOT_TXT, TextDatas),
                                         c \in FileChoices(NOTES \o DOT_TXT, TextDatas)}
    /\ metaFiles \in {a \cup c : a \in FileChoices(ID1 \o META_JSON, MetaDatas),
                                  c \in FileChoices(NOTES \o META_JSON, MetaDatas)}
    /\ tasks = {}
    /\ adds = NoAdds
    /\ last = NoOp
    /\ nCalls = 0
    /\ nBoots = 0
    /\ nFaults = 0

\* cache.load_from_disk() called once more on the cache of a running server
LoadAgain(loaded) ==
    /\ proc = "up"
    /\ transcripts' = loaded.cache
    /\ last' = [NoOp EXCEPT !.op = "load_again", !.aborted = loaded.raised]
    /\ UNCHANGED <<probe, proc, textFiles, metaFiles, tasks, adds, nCalls, nBoots, nFaults>>

LoadNext ==
    \/ \E l \in Listings : Startup(l)
    \/ \E l \in Listings : LoadAgain(LoadFromDisk(transcripts, textFiles, metaFiles, l))

SpecLoad == InitLoad /\ [][LoadNext]_vars

----------------------------------------------------------------------------
(* The formatting loop on its own.                                         *)

\* Start offsets in hundredths of a second: 0, 0.01, 0.99, 1, 59.99, 60,
\* 75.9, 599.99, 600, 3599.99, 3600, 5999.99, 6000.
Starts == {0, 1, 99, 100, 5999, 6000, 7590, 59999, 60000, 359999, 360000, 599999, 600000}

\* transcript_list: one or two entries, in any order of their offsets
FormatInputs ==
    {<<Entry(s, <<"one">>)>> : s \in Starts}
    \cup {<<Entry(s, <<"one">>), Entry(t, <<"two">>)>> : s \in Starts, t \in Starts}

InitFormat ==
    /\ probe \in {[transcript_list |-> l, done |-> FALSE, formatted_transcript |-> <<>>] :
                     l \in FormatInputs}
    /\ InitPipe

\* get_transcript's formatting loop over probe.transcript_list
Format ==
    /\ ~probe.done
    /\ probe' = [probe EXCEPT !.done = TRUE,
                              !.formatted_transcript = FormatEntries(probe.transcript_list)]
    /\ UNCHANGED pipeVars

SpecFormat == InitFormat /\ [][Format]_vars

----------------------------------------------------------------------------
(* Properties of the extractor, checked under SpecExtract.                 *)

\* The recognized shapes of a reference: a short link (host youtu.be) with a
\* non-empty path segment, a main-site host with a non-empty `v` parameter,
\* a bare identifier of 11 characters over letters, digits, "_" and "-".
ShortLinkShape(parsed_url) ==
    parsed_url.netloc = YOUTU_BE /\ Strip(parsed_url.path, {"/"}) # <<>>
MainSiteShape(parsed_url) ==
    parsed_url.netloc \in MainSiteHosts /\ QueryGet(parsed_url.query, <<"v">>) # <<>>
BareShape(url) == Len(url) = IdLen /\ \A i \in 1..IdLen : url[i] \in IdChar
RecognizedShape(url) ==
    ShortLinkShape(UrlParse(url)) \/ MainSiteShape(UrlParse(url)) \/ BareShape(url)

\* C4: for a string in none of the recognized shapes the extractor fails
\* with InvalidReference (a ValueError); it returns no identifier for it.
C4_UnrecognizedRejected ==
    probe.done /\ ~RecognizedShape(probe.url) => ~probe.result.ok

\* C5: every accepted short-link form and standard-link form carrying an
\* 11-character identifier X, and the bare X, yield exactly X.
C5_ManyToOne ==
    \A x \in {ID1, ID2} :
        probe.done /\ probe.url \in CarrierForms(x) => probe.result = Extracted(x)

----------------------------------------------------------------------------
(* Properties of the pipeline, checked under Spec.  `last` is the request  *)
(* that returned most recently, with what it did on the way.               *)

Requests == {"tool", "resource"}
TranscriptOutcomes == {"RETURNED_FRESH", "RETURNED_CACHED"}

\* The text get_transcript builds from what the request fetched.
BuiltText(call) ==
    FullTranscript(call.info.video_info, call.video_id, FormatEntries(call.segs))

\* C2: whenever the transcript provider succeeds and the metadata provider
\* fails (transport error, non-success status, malformed response), the
\* request returns the formatted transcript as RETURNED_FRESH, with
\* placeholder title and channel in its header, and the record is inserted.
\* (Stated for requests whose disk write did not fail as well.)
C2_MetadataNeverBlocks ==
    last.op \in Requests /\ last.fetch_ok /\ last.meta \in MetaFailures
        /\ last.disk \notin DiskFailures
    => /\ last.outcome = "RETURNED_FRESH"
       /\ last.added
       /\ last.info.video_info.title \in {UNKNOWN, UNKNOWN_TITLE}
       /\ last.info.video_info.channel \in {UNKNOWN, UNKNOWN_CHANNEL}
       /\ last.result = BuiltText(last)
       /\ CacheGet(transcripts, last.video_id).found

\* A reference on a main-site host whose query has no `v`, or an empty one.
MainSiteWithoutV(parsed_url) ==
    parsed_url.netloc \in MainSiteHosts /\ QueryGet(parsed_url.query, <<"v">>) = <<>>

\* C3: download_transcript of a main-site reference with `v` absent or empty
\* ends in RETURNED_ERROR carrying InvalidReference, with no cache lookup and
\* no outbound request; so no such request is ever waiting on a provider.
C3_MissingVRejected ==
    /\ last.op = "tool" /\ MainSiteWithoutV(UrlParse(last.url))
       => /\ last.outcome = "RETURNED_ERROR"
          /\ ~last.has_id
          /\ ~last.looked /\ ~last.fetched /\ ~last.meta_asked
    /\ \A task \in tasks : task.op = "tool" => ~MainSiteWithoutV(UrlParse(task.url))

\* The result is a formatted transcript: it opens with the header.
IsTranscript(call) ==
    call.outcome \in TranscriptOutcomes /\ StartsWith(call.result, <<"Title: ">>)

ERROR_PREFIX == <<"E","r","r","o","r",":">>

\* C6 as stated: every result of download_transcript is the formatted
\* transcript or a string that begins with "Error:".
C6_ErrorColonPrefix ==
    last.op = "tool" /\ last.outcome \in Returned
    => IsTranscript(last) \/ StartsWith(last.result, ERROR_PREFIX)

\* C6 as amended: every result of download_transcript is the formatted
\* transcript or a string that begins with "Error": with "Error: " when the
\* reference is invalid, with "Error retrieving transcript: " when the
\* failure is inside the pipeline.
C6_ErrorPrefixes ==
    last.op = "tool" /\ last.outcome \in Returned
    => \/ IsTranscript(last)
       \/ /\ last.outcome = "RETURNED_ERROR" /\ ~last.has_id
          /\ StartsWith(last.result, ERROR_COLON)
       \/ /\ last.outcome = "RETURNED_ERROR" /\ last.has_id
          /\ StartsWith(last.result, ERROR_RETRIEVING)

\* C6's case: the transcript provider failed for a tool request.
C6_Witness ==
    /\ last.op = "tool" /\ last.outcome = "RETURNED_ERROR"
    /\ last.fetched /\ ~last.fetch_ok
    /\ last.result = RetrievalError(TranscriptErrorText)

\* C7: when the transcript fetch succeeded and the disk write of the insert
\* fails, the request still ends in RETURNED_FRESH with the transcript text.
C7_DiskFailureNotFatal ==
    last.op \in Requests /\ last.fetch_ok /\ last.disk \in DiskFailures
    => last.outcome = "RETURNED_FRESH" /\ last.result = last.info.text

\* C8: an insert whose disk write fails stays in memory: lookup returns the
\* record, and a later request for the identifier in the same process is
\* served from the cache, without a fetch.
C8_NoRollback ==
    /\ last.op \in Requests /\ last.disk \in DiskFailures
       => CacheGet(transcripts, last.video_id) = Found(last.info)
    /\ last.op \in Requests /\ last.after_failed
       => /\ last.outcome = "RETURNED_CACHED"
          /\ ~last.fetched
          /\ last.result = CacheGet(transcripts, last.video_id).text

\* C8's case: a request served from the record of a failed insert.
C8_Witness ==
    /\ last.op \in Requests /\ last.after_failed
    /\ last.outcome = "RETURNED_CACHED"
    /\ last.video_id \in adds.failed
    /\ nBoots = 0

\* A step in which a request starts; it runs to its return, or to its
\* suspension in get_video_info.
RequestStarts == nCalls' = nCalls + 1

\* The request that starts in this step is get_transcript(video_id).
StartedWith(video_id) ==
    IF tasks' # tasks
    THEN \E task \in tasks' \ tasks : task.video_id = video_id
    ELSE last'.has_id /\ last'.video_id = video_id

\* The request that starts in this step follows the return of a request for
\* the same identifier, with nothing returning in between.
SecondInSuccession ==
    /\ RequestStarts
    /\ last.op \in Requests /\ last.has_id /\ last.outcome \in Returned
    /\ StartedWith(last.video_id)

\* It returns in the same step what the one before returned, from the cache,
\* without a transcript fetch.
ServedAgain ==
    /\ tasks' = tasks
    /\ last'.outcome = "RETURNED_CACHED"
    /\ ~last'.fetched
    /\ last'.result = last.result

\* C1 as stated: of two calls in succession for the same identifier, the
\* second returns the text the first returned and is served from the cache,
\* with no second transcript fetch.
C1_TwiceSameText == [][SecondInSuccession => ServedAgain]_vars

\* C1 as amended: when the first call returned the transcript, the second
\* returns the identical text and is served from the cache, with no second
\* transcript fetch.
C1_TwiceSameTranscript ==
    [][SecondInSuccession /\ last.outcome \in TranscriptOutcomes => ServedAgain]_vars

\* C1's case: a request served from the cache right after this process
\* fetched, stored and returned the transcript for the same identifier.
C1_Witness ==
    /\ last.op \in Requests /\ last.outcome = "RETURNED_CACHED"
    /\ last.video_id \in adds.ok
    /\ nCalls = 2 /\ nBoots = 0 /\ tasks = {}

\* foo.txt -> foo
Stem(filename) == SubSeq(filename, 1, Len(filename) - Len(DOT_TXT))

\* C9: a complete record inserted and fully written, then a teardown and a
\* rehydration from the untouched directory: the new cache has a record for
\* the identifier, with identical text.
C9_RoundTrip ==
    last.op = "startup" /\ nFaults = 0
    => \A info \in last.before :
          /\ CacheGet(transcripts, info.video_id).found
          /\ CacheGet(transcripts, info.video_id).text = info.text

\* The metadata artifact beside a text artifact is missing or malformed.
BadMetadata(video_id) ==
    \/ ~Exists(metaFiles, video_id \o META_JSON)
    \/ Data(metaFiles, video_id \o META_JSON).kind # "object"

\* C10: rehydration does not abort, and for every text artifact whose
\* metadata artifact is missing or malformed it creates a record with the
\* artifact's text and absent VideoInfo.  (Stated for the text artifacts of
\* identifiers that do not end in "_meta", and for the text as a read of the
\* artifact gives it.)
C10_BadMetadataTolerated ==
    last.op = "startup"
    => /\ ~last.aborted
       /\ \A f \in textFiles :
             ~EndsWith(f.name, META_TXT) /\ BadMetadata(Stem(f.name))
             => /\ CacheGet(transcripts, Stem(f.name)).found
                /\ CacheGet(transcripts, Stem(f.name)).text = ReadText(f.data)
                /\ ~CacheGet(transcripts, Stem(f.name)).video_info.present

\* A step in which a request starts, misses the cache and has its transcript
\* fetch fail.
ProviderFails == RequestStarts /\ tasks' = tasks /\ last'.fetched /\ ~last'.fetch_ok

\* C11: a failure of the transcript provider on a cache miss ends the request
\* in RETURNED_ERROR with a string that carries the failure, and leaves the
\* in-memory cache and the directory as they were: nothing is inserted,
\* nothing is written.
C11_ProviderFailureSoft ==
    [][ProviderFails
       => /\ last'.outcome = "RETURNED_ERROR"
          /\ StartsWith(last'.result, ERROR_RETRIEVING)
          /\ last'.result[Len(last'.result)] = TranscriptErrorText
          /\ ~last'.added
          /\ UNCHANGED <<transcripts, textFiles, metaFiles>>]_vars

\* C11's case: the provider failed for a request while the cache and the
\* directory held another transcript.
C11_Witness ==
    /\ last.op = "resource" /\ last.fetched /\ ~last.fetch_ok
    /\ last.outcome = "RETURNED_ERROR"
    /\ Len(transcripts) > 0 /\ textFiles # {}

\* A step in which one suspended request resumes and runs to its return.
ResumeStep ==
    /\ nCalls' = nCalls
    /\ Cardinality(tasks \ tasks') = 1 /\ tasks' \subseteq tasks
    /\ last'.outcome \in Returned
ResumedTask == CHOOSE task \in tasks \ tasks' : TRUE

\* Another request for the same identifier missed the cache while this one
\* was in flight: it is still suspended, or it has inserted its record since
\* this one found none.
Overlapped(task) ==
    \/ \E other \in tasks \ {task} : other.video_id = task.video_id
    \/ Truthy(CacheGet(transcripts, task.video_id).text)

RecordsFor(cache, video_id) == {i \in 1..Len(cache) : cache[i].video_id = video_id}

\* C12: of two requests for one identifier that both missed the cache before
\* either completed, each one whose own metadata exchange and disk write
\* succeed returns its own transcript and persists it, whatever the other
\* did; after it the cache holds exactly one record for the identifier, the
\* one of the request that inserted last.
C12_LastWriteWins ==
    [][ResumeStep /\ Overlapped(ResumedTask)
          /\ last'.meta \in {"ok", "no_fields", "status"} /\ last'.disk = "ok"
       => /\ last'.outcome = "RETURNED_FRESH"
          /\ last'.result = BuiltText(last')
          /\ last'.segs = ResumedTask.segs
          /\ Cardinality(RecordsFor(transcripts', last'.video_id)) = 1
          /\ CacheGet(transcripts', last'.video_id) = Found(last'.info)
          /\ last'.info.text = last'.result
          /\ Data(textFiles', last'.video_id \o DOT_TXT) = last'.result]_vars

\* C12's case: two requests for one identifier with different captions
\* missed the cache; one has inserted and returned, the other is about to.
C12_Witness ==
    /\ last.outcome = "RETURNED_FRESH" /\ last.added /\ nBoots = 0
    /\ \E task \in tasks : task.video_id = last.video_id /\ task.segs # last.segs

\* The identifiers get_transcript has inserted a record for in this process.
Inserted == adds.ok \cup adds.failed

\* Every record the pipeline put in the cache is whole: a formatted text
\* under its header, and a VideoInfo.
RecordsWhole ==
    \A i \in 1..Len(transcripts) :
        transcripts[i].video_id \in Inserted
        => /\ Truthy(transcripts[i].text)
           /\ StartsWith(transcripts[i].text, <<"Title: ">>)
           /\ transcripts[i].video_info.present
           /\ transcripts[i].video_info.video_id = transcripts[i].video_id

\* A step in which a suspended request is cancelled.
CancelStep ==
    /\ nCalls' = nCalls
    /\ Cardinality(tasks \ tasks') = 1 /\ tasks' \subseteq tasks
    /\ last'.outcome = "CANCELLED"

\* C13: in every reachable state every record the pipeline has inserted has
\* both its formatted text and its VideoInfo; and a request that is
\* cancelled at its suspension point, or whose fetch fails, inserts nothing
\* and writes nothing.
C13_NoPartialRecords ==
    /\ []RecordsWhole
    /\ [][CancelStep \/ ProviderFails
           => /\ ~last'.added
              /\ UNCHANGED <<transcripts, textFiles, metaFiles, adds>>]_vars

\* C13's case: a request was cancelled in get_video_info while the cache held
\* a record of this process; nothing of the cancelled request is in the cache
\* or in the directory.
C13_Witness ==
    /\ last.outcome = "CANCELLED"
    /\ ~CacheGet(transcripts, last.video_id).found
    /\ ~Exists(textFiles, last.video_id \o DOT_TXT)
    /\ Len(transcripts) > 0 /\ adds.ok # {}

\* Request number c is suspended in get_video_info.
Pending(c) == \E task \in tasks : task.call = c

\* A request starts and suspends: it missed the cache, the fetch returned
\* transcript_list and the formatting loop has run over it.
SuspendsAfterMiss ==
    \E task \in tasks' \ tasks :
        /\ tasks' = tasks \cup {task}
        /\ task.call = nCalls'
        /\ ~Truthy(CacheGet(transcripts, task.video_id).text)
        /\ task.segs \in Captions(task.video_id)
        /\ task.formatted_transcript = FormatEntries(task.segs)
        /\ UNCHANGED <<last, transcripts, textFiles, metaFiles>>

\* A suspended request resumes and returns the transcript it formatted
\* before suspending, having inserted it.
ReturnsFresh ==
    /\ ResumeStep
    /\ EndsWith(last'.result, ResumedTask.formatted_transcript)
    /\ CacheGet(transcripts', ResumedTask.video_id).found
    /\ CacheGet(transcripts', ResumedTask.video_id).text = last'.result

\* C14: when every metadata exchange returns or fails, every request ends in
\* exactly one of RETURNED_CACHED, RETURNED_FRESH, RETURNED_ERROR: a request
\* returns in the step it starts in or suspends once and later returns; and
\* RETURNED_FRESH only ends a request that missed the cache, fetched,
\* formatted, suspended, and inserted on resumption.
C14_Terminates ==
    /\ \A c \in 1..MaxCalls : []<>~Pending(c)
    /\ [][RequestStarts
           => \/ /\ tasks' = tasks
                 /\ last'.outcome \in Returned \ {"RETURNED_FRESH"}
                 /\ UNCHANGED <<transcripts, textFiles, metaFiles>>
              \/ SuspendsAfterMiss]_vars
    /\ [][tasks' # tasks /\ ~RequestStarts => ResumeStep]_vars
    /\ [][last'.outcome = "RETURNED_FRESH" => last' = last \/ ReturnsFresh]_vars

\* C14's case: every request of the run has ended, the last of them a
\* tool call that suspended and came back with the transcript.
C14_Witness ==
    /\ nCalls = MaxCalls /\ tasks = {}
    /\ last.op = "tool" /\ last.outcome = "RETURNED_FRESH"
    /\ last.meta = "status"

\* The lines of a listing: the text between its line feeds.
Lines(text) == Split(text, "\n")

\* The identifiers of the records the cache holds: each was inserted, by
\* get_transcript or by load_from_disk, once or more.
CachedIds == {transcripts[i].video_id : i \in 1..Len(transcripts)}

\* Entry i of the listing is numbered i and shows the i-th record's title,
\* channel and identifier (for a record without VideoInfo, the placeholders).
EntryShown(lines, i, info) ==
    /\ lines[3 * i] = Decimal(i) \o <<". ">> \o
                       (IF info.video_info.present THEN info.video_info.title
                        ELSE <<"Unknown Title">>)
    /\ lines[3 * i + 1] = <<"   Channel: ">> \o
                           (IF info.video_info.present THEN info.video_info.channel
                            ELSE <<"Unknown Channel">>)
    /\ lines[3 * i + 2] = <<"   ID: ">> \o info.video_id

ListedAll(lines, n) ==
    /\ Len(lines) = 3 * n + 3
    /\ lines[1] = <<"Available Transcripts:">> /\ lines[2] = <<>>
    /\ lines[3 * n + 3] = <<>>
    /\ \A i \in 1..n : EntryShown(lines, i, transcripts[i])

\* C15: what a listing returned, as long as it is the latest operation: the
\* fixed message when the cache is empty; otherwise one numbered entry per
\* identifier inserted, however often it was inserted, with the record's
\* identifier, title and channel.
C15_ListsEveryRecordOnce ==
    last.op = "list"
    => IF Cardinality(CachedIds) = 0
       THEN last.result = <<"No transcripts have been downloaded yet.">>
       ELSE ListedAll(Lines(last.result), Cardinality(CachedIds))

\* C15's case: a listing of a cache whose one identifier was inserted twice
\* by this process (the second insert's disk write failed at open, so the
\* text file still holds the first insert's text).
C15_Witness ==
    /\ last.op = "list" /\ last.outcome = "LISTED" /\ nBoots = 0
    /\ Len(transcripts) = 1
    /\ Exists(textFiles, transcripts[1].video_id \o DOT_TXT)
    /\ Truthy(Data(textFiles, transcripts[1].video_id \o DOT_TXT))
    /\ Data(textFiles, transcripts[1].video_id \o DOT_TXT) # transcripts[1].text

\* The identifiers in canonical form that both operations are called with.
CanonicalIds == {v \in ToolInputs \cap ResourceInputs : BareShape(v)}

\* The start of a request for v by the tool, extract_video_id having given
\* extracted, or by the resource.
BeginAs(op, v, extracted) ==
    IF op = "tool" THEN DownloadExtracted(v, extracted) ELSE GetTranscriptResource(v)

\* This step is the start of a request made through op with reference v: it
\* returned at once or it is newly suspended.
Began(op, v) ==
    /\ RequestStarts
    /\ \/ tasks' = tasks /\ last'.op = op /\ last'.url = v
       \/ \E task \in tasks' \ tasks : task.op = op /\ task.url = v

\* The tasks after a request started, the new one (if any) taken as op's.
AsOp(after, before, op) == before \cup {[task EXCEPT !.op = op] : task \in after \ before}

\* This step starts a request for v, and the other operation, started for v
\* in the same state with the same answer of the transcript provider, could
\* have taken the same step: the same result (or the same suspended
\* request), cache and directory as they were.
MirroredBegin(v, op) ==
    \E t \in {AsOp(tasks', tasks, op)},
       l \in {IF tasks' = tasks THEN [last' EXCEPT !.op = op] ELSE last'},
       extracted \in {ExtractVideoId(v)} :
        /\ UNCHANGED <<transcripts, textFiles, metaFiles>>
        /\ ENABLED (BeginAs(op, v, extracted) /\ tasks' = t /\ last' = l)

\* This step resumes a request, and the same request made through the
\* other operation, resumed in the same state with the same metadata
\* exchange and the same disk outcome, ends with the same result and leaves
\* the same cache and the same directory.
MirroredEnd(task, op) ==
    \E r \in {last'.meta}, l \in {[last' EXCEPT !.op = op]}, c \in {transcripts'},
       tf \in {textFiles'}, mf \in {metaFiles'} :
        ENABLED (/\ GetTranscriptEnd([task EXCEPT !.op = op], r,
                                     GetVideoInfo(task.video_id, r))
                 /\ last' = l /\ transcripts' = c
                 /\ textFiles' = tf /\ metaFiles' = mf)

OtherOp(op) == IF op = "tool" THEN "resource" ELSE "tool"

\* C16: for a canonical identifier, whatever the cache holds and whatever
\* the providers and the disk answer, a read of the transcript resource and
\* a download_transcript call do the same: every step of the one, at its
\* start and at its resumption, is a step the other can take, with the same
\* result and the same effect on the cache and the directory.
C16_ResourceAsTool ==
    [][/\ \A v \in CanonicalIds, op \in Requests :
              Began(op, v) => MirroredBegin(v, OtherOp(op))
       /\ ResumeStep
              => \A task \in {ResumedTask} :
                    task.url \in CanonicalIds => MirroredEnd(task, OtherOp(task.op))]_vars

\* C16's case: download_transcript called with a canonical identifier has
\* returned the transcript it fetched while a read of the resource of the
\* same identifier is suspended.
C16_Witness ==
    /\ last.op = "tool" /\ last.url \in CanonicalIds
    /\ last.outcome = "RETURNED_FRESH"
    /\ \E task \in tasks : task.op = "resource" /\ task.video_id = last.url

\* n in two decimal digits, in more when it has more.
TwoDigits(n) ==
    IF n < 100 THEN <<DigitSymbols[(n \div 10) + 1], DigitSymbols[(n % 10) + 1]>>
    ELSE Decimal(n)

\* [MM:SS] of an offset of `start` hundredths of a second: the whole seconds
\* of the offset, MM their quotient by 60 and SS their remainder.
Stamp(start) ==
    <<"[">> \o TwoDigits((start \div 100) \div 60) \o <<":">>
    \o TwoDigits((start \div 100) % 60) \o <<"]">>

\* The examples of the specification: 75.9, 0 and 599.99 seconds.
StampExamples(line, start) ==
    /\ start = 7590 => StartsWith(line, <<"[", "0", "1", ":", "1", "5", "]", " ">>)
    /\ start = 0 => StartsWith(line, <<"[", "0", "0", ":", "0", "0", "]", " ">>)
    /\ start = 59999 => StartsWith(line, <<"[", "0", "9", ":", "5", "9", "]", " ">>)

\* C17: the formatted transcript has one line per caption entry, in the
\* entries' order; each line is the entry's text after its timestamp
\* [MM:SS], MM = floor(s / 60) and SS = floor(s mod 60) in at least two
\* digits, the fraction of a second cut off; SS is within 0..59.
C17_Timestamps ==
    probe.done
    => /\ Len(Lines(probe.formatted_transcript)) = Len(probe.transcript_list) + 1
       /\ Lines(probe.formatted_transcript)[Len(probe.transcript_list) + 1] = <<>>
       /\ \A i \in 1..Len(probe.transcript_list) :
             /\ Lines(probe.formatted_transcript)[i]
                   = Stamp(probe.transcript_list[i].start) \o <<" ">>
                     \o probe.transcript_list[i].text
             /\ StampExamples(Lines(probe.formatted_transcript)[i],
                              probe.transcript_list[i].start)
             /\ Seconds(probe.transcript_list[i].start) \in 0..59

\* C17's case: two entries formatted, the later offset first: 599.99 s, then
\* 75.9 s.
C17_Witness ==
    /\ probe.done /\ Len(probe.transcript_list) = 2
    /\ probe.transcript_list[1].start = 59999
    /\ probe.transcript_list[2].start = 7590
    /\ probe.formatted_transcript # <<>>

\* C18: load_from_disk run again over the directory it has loaded, the
\* directory listed in any order, completes and leaves the cache exactly as
\* the first run left it: the same records, each with the same text and
\* VideoInfo, in the same order.
C18_RehydrateIdempotent ==
    [][last'.op = "load_again" => ~last'.aborted /\ transcripts' = transcripts]_vars

\* C18's case: a second run over a cache of two records, one with the
\* VideoInfo of its metadata file and one without.
C18_Witness ==
    /\ last.op = "load_again" /\ Len(transcripts) = 2
    /\ \E i \in 1..2 : transcripts[i].video_info.present
    /\ \E i \in 1..2 : ~transcripts[i].video_info.present

\* Only requests have run, and every disk write they made succeeded: the
\* server was never stopped and no OSError was raised.
OnlyCleanRequests == nBoots = 0 /\ nFaults = 0

\* The directory mirrors record info: its text file holds the record's text
\* and its metadata file the record's title and channel.
Mirrored(info) ==
    /\ Exists(textFiles, info.video_id \o DOT_TXT)
    /\ Data(textFiles, info.video_id \o DOT_TXT) = info.text
    /\ Exists(metaFiles, info.video_id \o META_JSON)
    /\ Data(metaFiles, info.video_id \o META_JSON).kind = "object"
    /\ Data(metaFiles, info.video_id \o META_JSON).keys = {"title", "channel"}
    /\ Data(metaFiles, info.video_id \o META_JSON).title = info.video_info.title
    /\ Data(metaFiles, info.video_id \o META_JSON).channel = info.video_info.channel

\* C19: after any interleaving of requests in which no disk write failed,
\* every complete record of the cache (text and VideoInfo) is mirrored in
\* the directory: the text file holds exactly its text and the metadata file
\* its title and channel.
C19_WriteThrough ==
    OnlyCleanRequests
    => \A i \in 1..Len(transcripts) :
          Truthy(transcripts[i].text) /\ transcripts[i].video_info.present
          => Mirrored(transcripts[i])

\* C19's case: two identifiers inserted by two requests, no disk write
\* failed, nothing pending.
C19_Witness ==
    /\ OnlyCleanRequests /\ tasks = {} /\ nCalls = 2
    /\ Len(transcripts) = 2 /\ last.outcome = "RETURNED_FRESH"
    /\ last.meta = "no_fields"

\* The request that starts in this step is for the identifier of record i
\* of the cache, and that record has its text.
HitsRecord(i) ==
    RequestStarts /\ StartedWith(transcripts[i].video_id) /\ Truthy(transcripts[i].text)

\* C20: a request that finds a record with its text returns in the step it
\* starts in, with exactly that text, asks neither the transcript provider
\* nor the metadata provider, and leaves the cache and the directory as
\* they were.
C20_HitChangesNothing ==
    [][\A i \in 1..Len(transcripts) :
          HitsRecord(i)
          => /\ tasks' = tasks
             /\ last'.outcome = "RETURNED_CACHED"
             /\ last'.result = transcripts[i].text
             /\ ~last'.fetched /\ ~last'.meta_asked /\ ~last'.added
             /\ UNCHANGED <<transcripts, textFiles, metaFiles, adds>>]_vars

\* C20's case: a hit on a record rehydrated without VideoInfo after a
\* restart.
C20_Witness ==
    /\ last.op \in Requests /\ last.outcome = "RETURNED_CACHED" /\ nBoots = 1
    /\ CacheGet(transcripts, last.video_id).found
    /\ ~CacheGet(transcripts, last.video_id).video_info.present
    /\ last.result = CacheGet(transcripts, last.video_id).text

====
